---- MODULE Spec2Model ----
(***************************************************************************)
(* A model of musedash_ripper: core.rip (validation, parse_config,         *)
(* fix_songs, songs_to_csv, normalize_songs), core.parallel_execute with   *)
(* the concurrent.futures worker pool it drives, core.export_song, and the *)
(* setter of the shared stop_event (cli.sigint_handler).                   *)
(*                                                                         *)
(* Strings that the code inspects character by character are sequences of  *)
(* one-character strings.  A progress value p (a float percentage in the   *)
(* code) is kept exactly, as the integer p * Scale.                        *)
(***************************************************************************)
EXTENDS Integers, Sequences, FiniteSets, TLC

(* ------------------------------ bounds -------------------------------- *)

\* most album records in the base "albums" manifest
MaxAlbums == 2

\* most track records in one per-album manifest
MaxTracks == 2

\* most Songs handed to parallel_execute in one run
MaxSongs == 3

\* most futures the pool holds in state RUNNING at once
MaxWorkers == 2

(* ------------------------- program constants -------------------------- *)

\* core.py:49
CONFIG_PARSE_PROGRESS == 10

\* core.py:32
ILLEGAL_FILENAME_CHARS == <<"<", ">", ":", "\"", "/", "\\", "|", "?", "*">>

\* the language selections of core.py:38-45 that the model draws from
\* ("None" is the key None: no localization)
LANGUAGES == {"None", "English"}

MUSIC_SUFFIX == <<"_", "m", "u", "s", "i", "c">>

COVER_SUFFIX == <<"_", "c", "o", "v", "e", "r">>

ALBUM_CHARS == {"A", "L", "B", "U", "M"}

ALBUM_PREFIX == <<"A", "L", "B", "U", "M">>

MUSE_DASH_PREFIX == <<"M", "u", "s", "e", " ", "D", "a", "s", "h", " ", "-", " ">>

EVERYTING == <<"E", "v", "e", "r", "y", "t", "i", "n", "g">>

EVERYTHING == <<"E", "v", "e", "r", "y", "t", "h", "i", "n", "g">>

(* ------------------------------ helpers ------------------------------- *)

RECURSIVE Factorial(_)
Factorial(n) ==
    IF n <= 1 THEN 1 ELSE n * Factorial(n - 1)

\* every progress value of a run is a multiple of 1/Scale
Scale == Factorial(MaxAlbums) * Factorial(MaxSongs)

Digit(n) ==
    <<"0", "1", "2", "3", "4", "5", "6", "7", "8", "9">>[n + 1]

DigitValue(c) ==
    CHOOSE n \in 0..9 : Digit(n) = c

StartsWith(s, pre) ==
    Len(s) >= Len(pre) /\ SubSeq(s, 1, Len(pre)) = pre

EndsWith(s, suf) ==
    Len(s) >= Len(suf) /\ SubSeq(s, Len(s) - Len(suf) + 1, Len(s)) = suf

\* str.replace(old, new): every non-overlapping occurrence, left to right
RECURSIVE Replace(_, _, _)
Replace(s, old, new) ==
    IF Len(s) < Len(old) \/ Len(old) = 0 THEN s
    ELSE IF StartsWith(s, old)
         THEN new \o Replace(SubSeq(s, Len(old) + 1, Len(s)), old, new)
         ELSE <<Head(s)>> \o Replace(Tail(s), old, new)

\* str.lstrip(chars): drop the leading characters that belong to chars
RECURSIVE LStrip(_, _)
LStrip(s, chars) ==
    IF s # <<>> /\ Head(s) \in chars THEN LStrip(Tail(s), chars) ELSE s

IsInt(s) ==
    s # <<>> /\ \A i \in 1..Len(s) : \E n \in 0..9 : Digit(n) = s[i]

\* int(str) of a string of decimal digits
RECURSIVE ParseInt(_)
ParseInt(s) ==
    IF s = <<>> THEN 0
    ELSE 10 * ParseInt(SubSeq(s, 1, Len(s) - 1)) + DigitValue(s[Len(s)])

\* dict.update: the keys of over replace those of base
Update(base, over) ==
    [k \in DOMAIN base \cup DOMAIN over |->
        IF k \in DOMAIN over THEN over[k] ELSE base[k]]

\* zip(a, b): pairs up to the shorter of the two
Zip(a, b) ==
    [i \in 1..(IF Len(a) <= Len(b) THEN Len(a) ELSE Len(b)) |-> <<a[i], b[i]>>]

UPPER ==
    <<"A", "B", "C", "D", "E", "F", "G", "H", "I", "J", "K", "L", "M", "N", "O", "P", "Q", "R", "S", "T", "U", "V", "W", "X", "Y", "Z">>

LOWER ==
    <<"a", "b", "c", "d", "e", "f", "g", "h", "i", "j", "k", "l", "m", "n", "o", "p", "q", "r", "s", "t", "u", "v", "w", "x", "y", "z">>

\* str.lower(): an upper-case letter becomes its lower-case one
Lower(s) ==
    [i \in 1..Len(s) |->
        IF \E k \in 1..Len(UPPER) : UPPER[k] = s[i]
        THEN LOWER[CHOOSE k \in 1..Len(UPPER) : UPPER[k] = s[i]]
        ELSE s[i]]

\* str.split(sep) for a one-character separator
RECURSIVE Split(_, _)
Split(s, sep) ==
    IF \A i \in 1..Len(s) : s[i] # sep THEN <<s>>
    ELSE LET k == CHOOSE i \in 1..Len(s) :
                     s[i] = sep /\ \A j \in 1..(i - 1) : s[j] # sep
         IN  <<SubSeq(s, 1, k - 1)>> \o Split(SubSeq(s, k + 1, Len(s)), sep)

(* ------------------------------ catalog ------------------------------- *)

CATALOG_BUNDLE_PREFIX ==
    <<"{", "U", "n", "i", "t", "y", "E", "n", "g", "i", "n", "e", ".", "A", "d", "d", "r", "e", "s", "s", "a", "b", "l", "e", "A", "s", "s", "e", "t", "s", ".", "A", "d", "d", "r", "e", "s", "s", "a", "b", "l", "e", "s", ".", "R", "u", "n", "t", "i", "m", "e", "P", "a", "t", "h", "}", "\\">>

\* the literal "StandaloneWindows64\\" of find_with_prefix
PLATFORM ==
    <<"S", "t", "a", "n", "d", "a", "l", "o", "n", "e", "W", "i", "n", "d", "o", "w", "s", "6", "4", "\\">>

\* load_catalog: the ids that start with CATALOG_BUNDLE_PREFIX, without it
load_catalog(ids) ==
    LET filtered == SelectSeq(ids, LAMBDA s : StartsWith(s, CATALOG_BUNDLE_PREFIX))
    IN  [i \in 1..Len(filtered) |->
            SubSeq(filtered[i], Len(CATALOG_BUNDLE_PREFIX) + 1, Len(filtered[i]))]

\* the literals the prefixes of the bundles are built from
CONFIG_OTHERS ==
    <<"c", "o", "n", "f", "i", "g", "_", "o", "t", "h", "e", "r", "s", "_", "a", "s", "s", "e", "t", "s", "_">>

CONFIG ==
    <<"c", "o", "n", "f", "i", "g", "_">>

ASSETS ==
    <<"_", "a", "s", "s", "e", "t", "s", "_">>

ALBUMS ==
    <<"a", "l", "b", "u", "m", "s">>

MUSIC_BUNDLE ==
    <<"m", "u", "s", "i", "c", "_">>

SONG_BUNDLE ==
    <<"s", "o", "n", "g", "_">>

ASSETS_ALL ==
    <<"_", "a", "s", "s", "e", "t", "s", "_", "a", "l", "l">>

\* LANGUAGES.get(language): the suffix of the localized assets
l_suffix(lang) ==
    IF lang = "English" THEN <<"E", "n", "g", "l", "i", "s", "h">> ELSE <<>>

\* parse_config, line 215 and line 244 (with the name "albums" for the first)
BasePrefix(name) ==
    CONFIG_OTHERS \o Lower(name) \o <<"_">>

\* parse_config, line 223 and lines 256-264
LocalizedPrefix(name, suffix) ==
    CONFIG \o Lower(suffix) \o ASSETS \o Lower(name) \o <<"_">>
        \o Lower(suffix) \o <<"_">>

\* extract_music, line 311
MusicPrefix(song) ==
    MUSIC_BUNDLE \o song.music_asset_name \o ASSETS_ALL

\* extract_cover, line 344
CoverPrefix(song) ==
    SONG_BUNDLE \o song.song_asset_name \o ASSETS_ALL \o <<"_">>

(* --------------------------- Song records ----------------------------- *)

\* Song(...) as parse_config builds it from the overlaid album and song entries
Song(album_entry, song_entry, track_num, total) ==
    [title            |-> song_entry.name,
     artist           |-> song_entry.author,
     album_number     |-> ParseInt(LStrip(album_entry.jsonName, ALBUM_CHARS)),
     album_name       |-> album_entry.title,
     track_number     |-> track_num,
     track_total      |-> total,
     music_asset_name |-> SubSeq(song_entry.music, 1,
                                 Len(song_entry.music) - Len(MUSIC_SUFFIX)),
     song_asset_name  |-> SubSeq(song_entry.cover, 1,
                                 Len(song_entry.cover) - Len(COVER_SUFFIX)),
     music_name       |-> song_entry.music,
     cover_name       |-> song_entry.cover,
     genre            |-> "None"]

\* a mutant of SongEntryOk: nothing is checked
SongEntryUnchecked(album_entry, song_entry) ==
    TRUE

\* the two assertions and the int() conversion that building a Song can fail on
SongEntryOk(album_entry, song_entry) ==
    /\ EndsWith(song_entry.cover, COVER_SUFFIX)
    /\ EndsWith(song_entry.music, MUSIC_SUFFIX)
    /\ IsInt(LStrip(album_entry.jsonName, ALBUM_CHARS))

SongKeyLeq(a, b) ==
    \/ a.album_number < b.album_number
    \/ a.album_number = b.album_number /\ a.track_number <= b.track_number

\* sorted(songs, key=(album_number, track_number)): a stable insertion sort
RECURSIVE InsertSorted(_, _)
InsertSorted(sorted, song) ==
    IF sorted = <<>> THEN <<song>>
    ELSE IF SongKeyLeq(sorted[Len(sorted)], song)
         THEN Append(sorted, song)
         ELSE Append(InsertSorted(SubSeq(sorted, 1, Len(sorted) - 1), song),
                     sorted[Len(sorted)])

RECURSIVE Sorted(_)
Sorted(list) ==
    IF list = <<>> THEN <<>>
    ELSE InsertSorted(Sorted(SubSeq(list, 1, Len(list) - 1)), list[Len(list)])

SUGAR_RADIO == <<"f", "m", "_", "1", "7", "3", "1", "4", "_", "s", "u", "g", "a", "r", "_", "r", "a", "d", "i", "o">>

QU_JIANHAI == <<"q", "u", "_", "j", "i", "a", "n", "h", "a", "i", "_", "d", "e", "_", "r", "i", "z", "i">>

QU_JIANHAI_COVER == <<"q", "u", "_", "j", "i", "a", "n", "h", "a", "i", "_", "d", "e", "_", "r", "i", "z", "i", "_", "c", "o", "v", "e", "r">>

MISTY_DAY == <<"m", "i", "s", "t", "y", "_", "m", "e", "m", "o", "r", "y", "_", "d", "a", "y", "_", "v", "e", "r", "s", "i", "o", "n">>

MISTY_NIGHT == <<"m", "i", "s", "t", "y", "_", "m", "e", "m", "o", "r", "y", "_", "n", "i", "g", "h", "t", "_", "v", "e", "r", "s", "i", "o", "n">>

\* the body of the loop of fix_songs, statement by statement
FixSong(song) ==
    LET s1 == [song EXCEPT !.album_name = Replace(@, EVERYTING, EVERYTHING)]
        s2 == [s1 EXCEPT !.music_asset_name = Replace(@, MUSIC_SUFFIX, <<>>)]
        s3 == [s2 EXCEPT !.song_asset_name = Replace(@, MUSIC_SUFFIX, <<>>)]
        s4 == IF s3.song_asset_name = SUGAR_RADIO
              THEN [s3 EXCEPT !.song_asset_name = QU_JIANHAI,
                              !.cover_name = QU_JIANHAI_COVER]
              ELSE s3
    IN  IF s4.song_asset_name = MISTY_DAY
        THEN [s4 EXCEPT !.song_asset_name = MISTY_NIGHT]
        ELSE s4

\* a mutant of fix_songs: the corrections are not made
fix_songs_skipped(list) ==
    list

fix_songs(list) ==
    [i \in 1..Len(list) |-> FixSong(list[i])]

normalize_songs(list) ==
    [i \in 1..Len(list) |->
        [list[i] EXCEPT !.album_name = MUSE_DASH_PREFIX \o @,
                        !.genre = "Video Games"]]

\* segment.replace(char, "_") for a single character
ReplaceChar(segment, char) ==
    [i \in 1..Len(segment) |-> IF segment[i] = char THEN "_" ELSE segment[i]]

\* the loop of normalize_path_segment over the first n illegal characters
RECURSIVE ReplaceChars(_, _)
ReplaceChars(segment, n) ==
    IF n = 0 THEN segment
    ELSE ReplaceChar(ReplaceChars(segment, n - 1), ILLEGAL_FILENAME_CHARS[n])

normalize_path_segment(segment) ==
    ReplaceChars(segment, Len(ILLEGAL_FILENAME_CHARS))

\* the rows songs_to_csv writes: every field of a Song but genre
CsvRow(song) ==
    [k \in DOMAIN song \ {"genre"} |-> song[k]]

songs_to_csv(list) ==
    [exists |-> TRUE, bom |-> TRUE,
     rows |-> [i \in 1..Len(list) |-> CsvRow(list[i])]]

(* ------------------------------- state -------------------------------- *)

VARIABLES
    \* the installation and the arguments of rip
    exe_exists, language, album_dirs, save_covers, save_songs_csv,
    \* m_InternalIds of catalog.json (dropped when load_catalog returns), the
    \* list load_catalog returns, and the paths under the addressables
    \* directory at which no file exists
    internal_ids, catalog, missing_bundles,
    \* what load_json returns to parse_config (dropped when it returns)
    albums_json, l_albums_json, entry_jsons, l_entry_jsons,
    \* the rip thread
    pc, album_num, songs, progress_val, outcome,
    \* the shared threading.Event
    stop_event,
    \* parallel_execute and rip.log_exported
    futures, not_done, done, to_cancel, error, all_done, done_counter,
    \* the worker pool
    capacity, work_ids, notified,
    \* the output directory
    files, csv_file,
    \* history: whether line 198 has found the stop_event set or an error,
    \* and whether the stop_event was set while some unit had completed and
    \* another had not
    stop_seen, stop_mid

inputs == <<exe_exists, language, album_dirs, save_covers, save_songs_csv,
            capacity, missing_bundles>>

index == <<internal_ids, catalog>>

manifests == <<albums_json, l_albums_json, entry_jsons, l_entry_jsons>>

sched == <<futures, not_done, done, to_cancel, error, all_done, done_counter>>

pool == <<work_ids, notified>>

history == <<stop_seen, stop_mid>>

vars == <<inputs, index, manifests, pc, album_num, songs, progress_val, outcome,
          stop_event, sched, pool, files, csv_file, history>>

(* -------------------------- find_with_prefix -------------------------- *)

\* find_with_prefix raises FileNotFoundError
NotFound ==
    [found |-> FALSE, path |-> <<>>]

\* find_with_prefix returns full_path: the segments under addressables_path
Found(full_path) ==
    [found |-> TRUE, path |-> full_path]

\* a mutant of find_with_prefix: of several entries the first one is taken
find_first_with_prefix(catalog_list, prefix) ==
    LET filtered == SelectSeq(catalog_list,
                              LAMBDA s : StartsWith(s, PLATFORM \o prefix))
    IN  IF Len(filtered) = 0 THEN NotFound
        ELSE LET full_path == Split(filtered[1], "\\")
             IN  IF full_path \in missing_bundles THEN NotFound
                 ELSE Found(full_path)

find_with_prefix(catalog_list, prefix) ==
    LET filtered == SelectSeq(catalog_list,
                              LAMBDA s : StartsWith(s, PLATFORM \o prefix))
    IN  IF Len(filtered) # 1 THEN NotFound
        ELSE LET full_path == Split(filtered[1], "\\")
             IN  IF full_path \in missing_bundles THEN NotFound
                 ELSE Found(full_path)

(* ------------------------------ manifests ----------------------------- *)

JsonName(i) ==
    ALBUM_PREFIX \o <<Digit(i)>>

\* the i-th record of the base "albums" manifest; an album without a
\* jsonName is the placeholder parse_config skips
BaseAlbum(i, named) ==
    [jsonName |-> IF named THEN JsonName(i) ELSE <<>>, title |-> <<"A", Digit(i)>>]

LocAlbum(i) ==
    [title |-> <<"L", Digit(i)>>]

BaseTrack(i, t, name) ==
    [name   |-> name,
     author |-> "artist",
     music  |-> <<"m", Digit(i), Digit(t)>> \o MUSIC_SUFFIX,
     cover  |-> <<"c", Digit(i), Digit(t)>> \o COVER_SUFFIX]

LocTrack(i, t) ==
    [name |-> <<"N", Digit(i), Digit(t)>>]

NoOutcome ==
    [status |-> "running", value |-> FALSE, err |-> "None", unit |-> 0]

Returned(v) ==
    [status |-> "returned", value |-> v, err |-> "None", unit |-> 0]

Raised(kind, u) ==
    [status |-> "raised", value |-> FALSE, err |-> kind, unit |-> u]

NoCsv ==
    [exists |-> FALSE, bom |-> FALSE, rows |-> <<>>]

Min(a, b) ==
    IF a <= b THEN a ELSE b

RECURSIVE SumTo(_, _)
SumTo(f, n) ==
    IF n = 0 THEN 0 ELSE f[n] + SumTo(f, n - 1)

RECURSIVE Flatten(_)
Flatten(seqs) ==
    IF seqs = <<>> THEN <<>> ELSE Head(seqs) \o Flatten(Tail(seqs))

BUNDLE_EXT ==
    <<".", "b", "u", "n", "d", "l", "e">>

\* a catalog entry for the bundle of a prefix: the name ends with a hash
Entry(prefix) ==
    PLATFORM \o prefix \o <<"h">> \o BUNDLE_EXT

\* the entry of another bundle of the same prefix: the hash differs
Sibling(entry) ==
    [entry EXCEPT ![Len(entry) - Len(BUNDLE_EXT)] = "k"]

\* the bundles the units of one track record read, once fix_songs has
\* corrected the asset names
TrackEntries(album, track) ==
    LET song == FixSong(Song(album, track, 1, 1))
    IN  <<Entry(MusicPrefix(song) \o <<"_">>), Entry(CoverPrefix(song))>>

\* the bundles of a manifest and of its localized counterpart
ConfigEntries(name) ==
    <<Entry(BasePrefix(name))>> \o
    (IF language = "None" THEN <<>>
     ELSE <<Entry(LocalizedPrefix(name, l_suffix(language)))>>)

\* the entries of an installation that holds the manifests of the state:
\* one bundle for every prefix a run resolves
Entries ==
    ConfigEntries(ALBUMS) \o
    Flatten([i \in 1..Len(albums_json) |->
        IF albums_json[i].jsonName = <<>> THEN <<>>
        ELSE ConfigEntries(albums_json[i].jsonName) \o
             Flatten([t \in 1..Len(entry_jsons[i]) |->
                 TrackEntries(albums_json[i], entry_jsons[i][t])])])

\* an id of catalog.json that names no bundle
OTHER_ID ==
    <<"A", "s", "s", "e", "t", "s", "/", "x">>

\* catalog.json for the entries, none of whose files is missing but those
\* of missing
InitCatalog(entries, missing) ==
    /\ internal_ids = <<OTHER_ID>> \o
          [i \in 1..Len(entries) |-> CATALOG_BUNDLE_PREFIX \o entries[i]]
    /\ catalog = <<>>
    /\ missing_bundles = missing

\* the state a run starts in, but for the manifests and the arguments
InitRun ==
    /\ pc = "rip"
    /\ album_num = 0
    /\ songs = <<>>
    /\ progress_val = 0
    /\ outcome = NoOutcome
    /\ stop_event = FALSE
    /\ futures = <<>>
    /\ not_done = {}
    /\ done = {}
    /\ to_cancel = {}
    /\ error = 0
    /\ all_done = TRUE
    /\ done_counter = 0
    /\ work_ids = <<>>
    /\ notified = {}
    /\ files = {}
    /\ csv_file = NoCsv
    /\ stop_seen = FALSE
    /\ stop_mid = FALSE

\* manifests of n albums: album i is named or the placeholder, holds cnt[i]
\* base track records and lcnt[i] localized ones
InitManifests(n, named, cnt, lcnt, names) ==
    /\ albums_json = [i \in 1..n |-> BaseAlbum(i, named[i])]
    /\ l_albums_json = IF language = "None" THEN <<>>
                       ELSE [i \in 1..n |-> LocAlbum(i)]
    /\ entry_jsons = [i \in 1..n |->
                        [t \in 1..cnt[i] |-> BaseTrack(i, t, names[i][t])]]
    /\ l_entry_jsons = IF language = "None" THEN <<>>
                       ELSE [i \in 1..n |-> [t \in 1..lcnt[i] |-> LocTrack(i, t)]]

DefaultNames ==
    [i \in 1..MaxAlbums |-> [t \in 1..MaxTracks |-> <<"T", Digit(i), Digit(t)>>]]

\* the option sets a run is started with: the defaults of the command line,
\* and flat folders with the table of songs
RunOptions ==
    {[album_dirs |-> TRUE, save_covers |-> FALSE, save_songs_csv |-> FALSE],
     [album_dirs |-> FALSE, save_covers |-> FALSE, save_songs_csv |-> TRUE]}

\* the track counts of n albums of which album skip (if any) is the
\* placeholder: at most MaxSongs records in all, an album holding records
\* only when the named albums before it hold MaxTracks
TrackCounts(n, skip) ==
    {cnt \in [1..n -> 0..MaxTracks] :
        /\ \A i \in 1..n : i = skip => cnt[i] = 0
        /\ \A i, j \in 1..n :
              i < j /\ i # skip /\ cnt[j] > 0 => cnt[i] = MaxTracks
        /\ SumTo(cnt, n) <= MaxSongs}

Init ==
    /\ InitRun
    /\ exe_exists \in BOOLEAN
    /\ language \in LANGUAGES
    /\ \E o \in RunOptions :
         /\ album_dirs = o.album_dirs
         /\ save_covers = o.save_covers
         /\ save_songs_csv = o.save_songs_csv
    /\ capacity \in 1..MaxWorkers
    /\ \E n \in 0..MaxAlbums :
         \E skip \in 0..n :
            \E cnt \in TrackCounts(n, skip) :
               InitManifests(n, [i \in 1..n |-> i # skip], cnt, cnt,
                             DefaultNames)
    /\ InitCatalog(Entries, {})

(* ------------------------------- rip ---------------------------------- *)

\* a mutant of ConfigProgress: x is reported without its share
ConfigProgressUnscaled(num, len) ==
    (num * 100 * Scale) \div len

\* progress(x * CONFIG_PARSE_PROGRESS / 100) with
\* x = album_num / len(albums_json) * 100, times Scale
ConfigProgress(num, len) ==
    LET x == (num * 100 * Scale) \div len
    IN  (x * CONFIG_PARSE_PROGRESS) \div 100

\* a mutant of ExportProgress: the counter is one ahead
ExportProgressAhead(counter, len) ==
    CONFIG_PARSE_PROGRESS * Scale
        + ((100 - CONFIG_PARSE_PROGRESS) * (counter + 1) * Scale) \div len

\* progress(CONFIG_PARSE_PROGRESS + (100 - CONFIG_PARSE_PROGRESS)
\*          * done_counter / len(songs)), times Scale
ExportProgress(counter, len) ==
    CONFIG_PARSE_PROGRESS * Scale
        + ((100 - CONFIG_PARSE_PROGRESS) * counter * Scale) \div len

\* rip, lines 452-470: progress(0), the check for MuseDash.exe, load_catalog
RipStart ==
    /\ pc = "rip"
    /\ progress_val' = 0
    /\ IF exe_exists
       THEN /\ pc' = "parse_config"
            /\ catalog' = load_catalog(internal_ids)
            /\ internal_ids' = <<>>
            /\ UNCHANGED outcome
       ELSE /\ pc' = "exit"
            /\ outcome' = Raised("UserError", 0)
            /\ UNCHANGED index
    /\ UNCHANGED <<inputs, manifests, album_num, songs, stop_event, sched,
                   pool, files, csv_file, history>>

\* parse_config, lines 215, 222-224, 244-245 and 255-265: the bundle of a
\* manifest is found and, with a language, that of its localized counterpart
ManifestsFound(name) ==
    /\ find_with_prefix(catalog, BasePrefix(name)).found
    /\ language # "None" =>
          find_with_prefix(catalog,
                           LocalizedPrefix(name, l_suffix(language))).found

\* parse_config, lines 213-234: the albums manifests are loaded and, with a
\* language, must be of one length; without one the overlay is [{}] * len
ParseConfigLoad ==
    /\ pc = "parse_config"
    /\ IF ~ManifestsFound(ALBUMS)
       THEN /\ pc' = "exit"
            /\ outcome' = Raised("FileNotFoundError", 0)
            /\ UNCHANGED l_albums_json
       ELSE IF language # "None" /\ Len(albums_json) # Len(l_albums_json)
       THEN /\ pc' = "exit"
            /\ outcome' = Raised("AssertionError", 0)
            /\ UNCHANGED l_albums_json
       ELSE /\ pc' = "albums"
            /\ l_albums_json' = IF language = "None"
                                THEN [i \in 1..Len(albums_json) |-> <<>>]
                                ELSE l_albums_json
            /\ UNCHANGED outcome
    /\ album_num' = 0
    /\ songs' = <<>>
    /\ UNCHANGED <<inputs, index, albums_json, entry_jsons, l_entry_jsons,
                   progress_val, stop_event, sched, pool, files, csv_file,
                   history>>

\* one round of the loop over the albums, lines 235-305; the per-album
\* manifests, which the code finds by jsonName, are kept by album position
ParseAlbum ==
    /\ pc = "albums"
    /\ album_num < Len(Zip(albums_json, l_albums_json))
    /\ LET num == album_num + 1
           pair == Zip(albums_json, l_albums_json)[num]
           album_entry == Update(pair[1], pair[2])
           entry_json == entry_jsons[num]
           l_entry_json == IF language = "None"
                           THEN [t \in 1..Len(entry_json) |-> <<>>]
                           ELSE l_entry_jsons[num]
           pairs == Zip(entry_json, l_entry_json)
           song_entry(t) == Update(pairs[t][1], pairs[t][2])
       IN  /\ album_num' = num
           /\ IF album_entry.jsonName = <<>>
              THEN UNCHANGED <<pc, outcome, songs, progress_val>>
              ELSE IF ~ManifestsFound(album_entry.jsonName)
                   THEN /\ pc' = "exit"
                        /\ outcome' = Raised("FileNotFoundError", 0)
                        /\ UNCHANGED <<songs, progress_val>>
              ELSE IF \E t \in 1..Len(pairs) :
                        ~SongEntryOk(album_entry, song_entry(t))
                   THEN /\ pc' = "exit"
                        /\ outcome' = Raised("AssertionError", 0)
                        /\ UNCHANGED <<songs, progress_val>>
                   ELSE /\ songs' = songs \o
                              [t \in 1..Len(pairs) |->
                                  Song(album_entry, song_entry(t), t,
                                       Len(entry_json))]
                        /\ progress_val' = ConfigProgress(num, Len(albums_json))
                        /\ UNCHANGED <<pc, outcome>>
    /\ UNCHANGED <<inputs, index, manifests, stop_event, sched, pool, files,
                   csv_file, history>>

\* the entries no prefix of extract_music or extract_cover can match: each
\* of those starts with "music_" or "song_"
ConfigEntry(entry) ==
    StartsWith(entry, PLATFORM \o CONFIG)

\* line 306: the sorted list is returned and the loaded manifests are
\* dropped, and with them the entries of the bundles they were read from,
\* which nothing reads from then on
ParseReturn ==
    /\ pc = "albums"
    /\ album_num = Len(Zip(albums_json, l_albums_json))
    /\ songs' = Sorted(songs)
    /\ albums_json' = <<>>
    /\ l_albums_json' = <<>>
    /\ entry_jsons' = <<>>
    /\ l_entry_jsons' = <<>>
    /\ catalog' = SelectSeq(catalog, LAMBDA e : ~ConfigEntry(e))
    /\ album_num' = 0
    /\ pc' = "fix_songs"
    /\ UNCHANGED <<inputs, internal_ids, progress_val, outcome, stop_event, sched, pool,
                   files, csv_file, history>>

\* line 474
FixSongs ==
    /\ pc = "fix_songs"
    /\ songs' = fix_songs(songs)
    /\ pc' = "songs_csv"
    /\ UNCHANGED <<inputs, index, manifests, album_num, progress_val, outcome,
                   stop_event, sched, pool, files, csv_file, history>>

\* lines 475-478
SaveCsv ==
    /\ pc = "songs_csv"
    /\ csv_file' = IF save_songs_csv THEN songs_to_csv(songs) ELSE csv_file
    /\ pc' = "normalize_songs"
    /\ UNCHANGED <<inputs, index, manifests, album_num, songs, progress_val, outcome,
                   stop_event, sched, pool, files, history>>

\* lines 479-483
NormalizeSongs ==
    /\ pc = "normalize_songs"
    /\ songs' = normalize_songs(songs)
    /\ pc' = "stop_check"
    /\ UNCHANGED <<inputs, index, manifests, album_num, progress_val, outcome,
                   stop_event, sched, pool, files, csv_file, history>>

\* lines 484-487: the one read of stop_event before the units are submitted
StopCheck ==
    /\ pc = "stop_check"
    /\ IF stop_event
       THEN pc' = "exit" /\ outcome' = Returned(FALSE)
       ELSE pc' = "submit" /\ UNCHANGED outcome
    /\ done_counter' = 0
    /\ UNCHANGED <<inputs, index, manifests, album_num, songs, progress_val,
                   stop_event, futures, not_done, done, to_cancel, error,
                   all_done, pool, files, csv_file, history>>

\* some unit has completed while another has not
MidRun ==
    /\ \E f \in 1..Len(futures) : futures[f].state \in {"Succeeded", "Failed"}
    /\ \/ Len(futures) < Len(songs)
       \/ \E f \in 1..Len(futures) : futures[f].state \in {"Pending", "Running"}

\* cli.sigint_handler (or the GUI thread closing the window): at any moment
SetStop ==
    /\ ~stop_event
    /\ pc # "exit"
    /\ stop_event' = TRUE
    /\ stop_mid' = MidRun
    /\ UNCHANGED <<inputs, index, manifests, pc, album_num, songs, progress_val,
                   outcome, sched, pool, files, csv_file, stop_seen>>

(* ------------------------- parallel_execute --------------------------- *)

StateOf(f) ==
    futures[f].state

FuturesIn(states) ==
    {f \in 1..Len(futures) : StateOf(f) \in states}

\* a mutant of Completed: a cancelled future never counts as completed
CompletedWhenFinished(f) ==
    StateOf(f) \in {"Succeeded", "Failed"}

\* what concurrent.futures.wait counts as completed: finished, or cancelled
\* and notified by the pool
Completed(f) ==
    \/ StateOf(f) \in {"Succeeded", "Failed"}
    \/ StateOf(f) = "Cancelled" /\ f \in notified

\* lines 183-184: executor.submit for the next item of the iterable
Submit ==
    /\ pc = "submit"
    /\ Len(futures) < Len(songs)
    /\ LET f == Len(futures) + 1
       IN  /\ futures' = Append(futures,
                                [song |-> f, state |-> "Pending", attempts |-> 0])
           /\ not_done' = not_done \cup {f}
           /\ work_ids' = Append(work_ids, f)
    /\ UNCHANGED <<inputs, index, manifests, pc, album_num, songs, progress_val,
                   outcome, stop_event, done, to_cancel, error, all_done,
                   done_counter, notified, files, csv_file, history>>

\* lines 185-186, once the iterable is exhausted
SubmitEnd ==
    /\ pc = "submit"
    /\ Len(futures) = Len(songs)
    /\ error' = 0
    /\ all_done' = TRUE
    /\ pc' = "while"
    /\ UNCHANGED <<inputs, index, manifests, album_num, songs, progress_val, outcome,
                   stop_event, futures, not_done, done, to_cancel,
                   done_counter, pool, files, csv_file, history>>

\* lines 187-190: wait(not_done, FIRST_COMPLETED) returns once a future of
\* not_done has completed, with every future completed by then
Wait ==
    /\ pc = "while"
    /\ not_done # {}
    /\ \E f \in not_done : Completed(f)
    /\ done' = {f \in not_done : Completed(f)}
    /\ not_done' = not_done \ done'
    /\ pc' = "for"
    /\ UNCHANGED <<inputs, index, manifests, album_num, songs, progress_val, outcome,
                   stop_event, futures, to_cancel, error, all_done,
                   done_counter, pool, files, csv_file, history>>

\* a mutant of ErrorAfter: a future that did not raise clears the error
ErrorClearedAfter(err, f) ==
    IF StateOf(f) = "Failed" THEN f ELSE 0

\* lines 196-197: error = err for a future that raised, named by the future
ErrorAfter(err, f) ==
    IF StateOf(f) = "Failed" THEN f ELSE err

\* a mutant of AllDoneAfter: a cancelled future leaves all_done alone
AllDoneKept(all, f) ==
    all

\* lines 194-195: all_done = False for a cancelled future
AllDoneAfter(all, f) ==
    IF StateOf(f) = "Cancelled" THEN FALSE ELSE all

\* a mutant of CountDone: every future of the batch is counted
CountEvery(counter, f) ==
    counter + 1

\* done_counter += 1 in rip.log_exported, called for a future with a result
CountDone(counter, f) ==
    IF StateOf(f) = "Succeeded" THEN counter + 1 ELSE counter

\* lines 191-197: one future of the batch, in the order the set yields them;
\* done_callback is rip.log_exported (lines 489-494)
ForFuture ==
    /\ pc = "for"
    /\ \E f \in done :
         /\ done' = done \ {f}
         /\ done_counter' = CountDone(done_counter, f)
         /\ progress_val' = IF StateOf(f) = "Succeeded"
                            THEN ExportProgress(done_counter', Len(songs))
                            ELSE progress_val
         /\ all_done' = AllDoneAfter(all_done, f)
         /\ error' = ErrorAfter(error, f)
    /\ UNCHANGED <<inputs, index, manifests, pc, album_num, songs, outcome,
                   stop_event, futures, not_done, to_cancel, pool, files,
                   csv_file, history>>

\* line 198, after the batch: the read of stop_event and of error
Check ==
    /\ pc = "for"
    /\ done = {}
    /\ IF stop_event \/ error # 0
       THEN /\ to_cancel' = not_done
            /\ pc' = IF not_done = {} THEN "while" ELSE "cancel"
            /\ stop_seen' = TRUE
       ELSE /\ pc' = "while"
            /\ UNCHANGED <<to_cancel, stop_seen>>
    /\ UNCHANGED <<inputs, index, manifests, album_num, songs, progress_val, outcome,
                   stop_event, futures, not_done, done, error, all_done,
                   done_counter, pool, files, csv_file, stop_mid>>

\* a mutant of CancelFuture: a finished future is cancelled too
CancelAny(fut) ==
    [fut EXCEPT !.state = "Cancelled"]

\* a mutant of CancelFuture: a running future is cancelled too
CancelRunning(fut) ==
    IF fut.state \in {"Pending", "Running"}
    THEN [fut EXCEPT !.state = "Cancelled"]
    ELSE fut

\* Future.cancel(): a pending future becomes cancelled, any other is left alone
CancelFuture(fut) ==
    IF fut.state = "Pending" THEN [fut EXCEPT !.state = "Cancelled"] ELSE fut

\* lines 199-200: future.cancel() for one future of not_done
Cancel ==
    /\ pc = "cancel"
    /\ \E f \in to_cancel :
         /\ futures' = [futures EXCEPT ![f] = CancelFuture(@)]
         /\ to_cancel' = to_cancel \ {f}
         /\ pc' = IF to_cancel' = {} THEN "while" ELSE "cancel"
    /\ UNCHANGED <<inputs, index, manifests, album_num, songs, progress_val, outcome,
                   stop_event, not_done, done, error, all_done, done_counter,
                   pool, files, csv_file, history>>

\* a mutant of Result: all_done is not looked at
ResultOfError(err, all) ==
    IF err # 0 THEN Raised("ExportError", err) ELSE Returned(TRUE)

\* lines 201-203 and rip's lines 498-515: the error is raised, or all_done is
\* returned and rip returns False for it or True
Result(err, all) ==
    IF err # 0 THEN Raised("ExportError", err) ELSE Returned(all)

Finish ==
    /\ pc = "while"
    /\ not_done = {}
    /\ outcome' = Result(error, all_done)
    /\ pc' = "exit"
    /\ UNCHANGED <<inputs, index, manifests, album_num, songs, progress_val,
                   stop_event, sched, pool, files, csv_file, history>>

(* ------------------------- the worker pool ----------------------------- *)

\* the pool takes the oldest submitted work item when it has room: a
\* cancelled future is notified and dropped, any other starts running
PoolDequeue ==
    /\ work_ids # <<>>
    /\ Cardinality(FuturesIn({"Running"})) < capacity
    /\ LET f == Head(work_ids)
       IN  IF StateOf(f) = "Cancelled"
           THEN /\ notified' = notified \cup {f}
                /\ UNCHANGED futures
           ELSE /\ futures' = [futures EXCEPT ![f].state = "Running",
                                              ![f].attempts = @ + 1]
                /\ UNCHANGED notified
    /\ work_ids' = Tail(work_ids)
    /\ UNCHANGED <<inputs, index, manifests, pc, album_num, songs, progress_val,
                   outcome, stop_event, not_done, done, to_cancel, error,
                   all_done, done_counter, files, csv_file, history>>

\* export_song, lines 417-418 and 422-436: the paths a unit writes
MusicPath(song) ==
    <<"music",
      IF album_dirs THEN normalize_path_segment(song.album_name) ELSE <<>>,
      normalize_path_segment(song.title)>>

CoverPath(song) ==
    <<"covers",
      IF album_dirs THEN normalize_path_segment(song.album_name) ELSE <<>>,
      normalize_path_segment(song.title)>>

WriteFile(tree, path, content) ==
    {x \in tree : x.path # path} \cup {[path |-> path, content |-> content]}

\* export_song for the song of future f, ending as how says: "ok", "fail"
\* (before anything is written) or "fail_cover" (the music file is written
\* and saving the cover fails)
ExportSong(f, how) ==
    LET song == songs[futures[f].song]
        music == WriteFile(files, MusicPath(song), f)
    IN  CASE how = "fail" -> files
          [] how = "fail_cover" -> music
          [] OTHER -> IF save_covers
                      THEN WriteFile(music, CoverPath(song), f)
                      ELSE music

\* extract_music and extract_cover find the bundles of the song
BundlesFound(song) ==
    /\ find_with_prefix(catalog, MusicPrefix(song)).found
    /\ find_with_prefix(catalog, CoverPrefix(song)).found

\* the ways export_song can end for the song of future f: without its
\* bundles it raises before it writes
Endings(f) ==
    IF BundlesFound(songs[futures[f].song])
    THEN {"ok", "fail"} \cup (IF save_covers THEN {"fail_cover"} ELSE {})
    ELSE {"fail"}

\* a running unit ends, with a result or with an exception
Complete ==
    /\ \E f \in FuturesIn({"Running"}) :
         \E how \in Endings(f) :
            /\ files' = ExportSong(f, how)
            /\ futures' = [futures EXCEPT ![f].state =
                              IF how = "ok" THEN "Succeeded" ELSE "Failed"]
    /\ UNCHANGED <<inputs, index, manifests, pc, album_num, songs, progress_val,
                   outcome, stop_event, not_done, done, to_cancel, error,
                   all_done, done_counter, pool, csv_file, history>>

Next ==
    \/ RipStart
    \/ ParseConfigLoad
    \/ ParseAlbum
    \/ ParseReturn
    \/ FixSongs
    \/ SaveCsv
    \/ NormalizeSongs
    \/ StopCheck
    \/ SetStop
    \/ Submit
    \/ SubmitEnd
    \/ Wait
    \/ ForFuture
    \/ Check
    \/ Cancel
    \/ Finish
    \/ PoolDequeue
    \/ Complete

Spec ==
    Init /\ [][Next]_vars

(* ------------------- runs with titles that collide -------------------- *)

\* the Tracks of a run of SpecExport
ExportSongs == 2

\* raw titles: two that differ in an illegal character only, and one more
Titles ==
    {<<"A", ":", "B">>, <<"A", "?", "B">>, <<"A", " ", "B">>}

\* ExportSongs tracks, in one album or one to an album, with any titles and
\* any folder and cover options
InitExport ==
    /\ InitRun
    /\ exe_exists = TRUE
    /\ language = "None"
    /\ album_dirs \in BOOLEAN
    /\ save_covers \in BOOLEAN
    /\ save_songs_csv = FALSE
    /\ capacity \in 1..ExportSongs
    /\ \E n \in {1, ExportSongs} :
         \E names \in [1..n -> [1..(ExportSongs \div n) -> Titles]] :
            InitManifests(n, [i \in 1..n |-> TRUE],
                          [i \in 1..n |-> ExportSongs \div n],
                          [i \in 1..n |-> ExportSongs \div n], names)
    /\ InitCatalog(Entries, {})

SpecExport ==
    InitExport /\ [][Next]_vars

(* ------------- runs over defective installations and manifests ------- *)

\* the albums of an installation of SpecConfig: the second is the album
\* whose title fix_songs corrects
ConfigAlbum(i) ==
    [jsonName |-> JsonName(i),
     title |-> IF i = 2 THEN EVERYTING ELSE <<"A", Digit(i)>>]

\* the track records album i holds
ConfigCount(i) ==
    IF i = 1 THEN 2 ELSE 1

\* the track records of SpecConfig: the two whose asset names fix_songs
\* remaps, and records with "_music" inside the asset names
ConfigTrack(i, t) ==
    [name   |-> <<"T", Digit(i), Digit(t)>>,
     author |-> "artist",
     music  |-> <<"m", Digit(i), Digit(t)>> \o MUSIC_SUFFIX \o MUSIC_SUFFIX,
     cover  |-> CASE i = 1 /\ t = 1 -> SUGAR_RADIO \o COVER_SUFFIX
                  [] i = 2 /\ t = 1 -> MISTY_DAY \o COVER_SUFFIX
                  [] OTHER -> <<"c", Digit(i), Digit(t)>> \o MUSIC_SUFFIX
                                  \o COVER_SUFFIX]

\* what is wrong with the manifests of a run of SpecConfig
ManifestDefects ==
    {"none", "albums_short", "albums_long", "tracks_short", "tracks_long",
     "bad_cover", "bad_music"}

\* the second record of the first album, with the defect
DefectiveTrack(defect, i, t) ==
    IF i = 1 /\ t = 2 /\ defect = "bad_cover"
    THEN [ConfigTrack(i, t) EXCEPT !.cover = <<"c", "1", "2">> \o MUSIC_SUFFIX]
    ELSE IF i = 1 /\ t = 2 /\ defect = "bad_music"
    THEN [ConfigTrack(i, t) EXCEPT !.music = <<"m", "1", "2">> \o COVER_SUFFIX]
    ELSE ConfigTrack(i, t)

LocalizedAlbums(defect) ==
    CASE defect = "albums_short" -> 1
      [] defect = "albums_long" -> 3
      [] OTHER -> 2

LocalizedCount(defect, i) ==
    CASE i = 1 /\ defect = "tracks_short" -> ConfigCount(i) - 1
      [] i = 1 /\ defect = "tracks_long" -> ConfigCount(i) + 1
      [] OTHER -> ConfigCount(i)

Remove(list, k) ==
    SubSeq(list, 1, k - 1) \o SubSeq(list, k + 1, Len(list))

\* the catalogs of SpecConfig: one entry for every prefix, or with one
\* entry left out, listed twice, joined by the entry of a second bundle of
\* its prefix, or naming a file that does not exist
Catalogs(entries) ==
    {[entries |-> entries, missing |-> {}]}
    \cup {[entries |-> Remove(entries, k), missing |-> {}] :
             k \in 1..Len(entries)}
    \cup {[entries |-> Append(entries, entries[k]), missing |-> {}] :
             k \in 1..Len(entries)}
    \cup {[entries |-> <<Sibling(entries[k])>> \o entries, missing |-> {}] :
             k \in 1..Len(entries)}
    \cup {[entries |-> entries, missing |-> {Split(entries[k], "\\")}] :
             k \in 1..Len(entries)}

\* a run with every output requested, over an installation with at most one
\* defect: no MuseDash.exe, a defective manifest or a defective catalog
InitConfig ==
    /\ InitRun
    /\ album_dirs = TRUE
    /\ save_covers = TRUE
    /\ save_songs_csv = TRUE
    /\ capacity = 2
    /\ language \in LANGUAGES
    /\ \E defect \in ManifestDefects :
         /\ albums_json = [i \in 1..2 |-> ConfigAlbum(i)]
         /\ l_albums_json =
               IF language = "None" THEN <<>>
               ELSE [i \in 1..LocalizedAlbums(defect) |-> LocAlbum(i)]
         /\ entry_jsons =
               [i \in 1..2 |->
                   [t \in 1..ConfigCount(i) |-> DefectiveTrack(defect, i, t)]]
         /\ l_entry_jsons =
               IF language = "None" THEN <<>>
               ELSE [i \in 1..2 |->
                       [t \in 1..LocalizedCount(defect, i) |-> LocTrack(i, t)]]
         /\ \/ /\ exe_exists \in BOOLEAN
               /\ InitCatalog(Entries, {})
            \/ /\ defect = "none"
               /\ exe_exists = TRUE
               /\ \E c \in Catalogs(Entries) : InitCatalog(c.entries, c.missing)

SpecConfig ==
    InitConfig /\ [][Next]_vars

(* ------------------------ runs that are scheduled --------------------- *)

\* the steps of the thread that runs parallel_execute
ParallelExecute ==
    Submit \/ SubmitEnd \/ Wait \/ ForFuture \/ Check \/ Cancel \/ Finish

\* a running unit ends: the steps of Complete, by what they do to futures
UnitEnds ==
    \E f \in FuturesIn({"Running"}) : \E state \in {"Succeeded", "Failed"} :
        futures' = [futures EXCEPT ![f].state = state]

\* the thread of parallel_execute runs while it can, the pool takes a work
\* item while it has one and room for it, and a unit that has started
\* finishes; nothing makes anyone set the stop_event
Fairness ==
    /\ WF_vars(ParallelExecute)
    /\ WF_vars(PoolDequeue)
    /\ WF_futures(UnitEnds)

\* runs over a sound installation, with the defaults of the command line
InitLive ==
    /\ InitRun
    /\ exe_exists = TRUE
    /\ language = "None"
    /\ album_dirs = TRUE
    /\ save_covers = FALSE
    /\ save_songs_csv = FALSE
    /\ capacity \in 1..MaxWorkers
    /\ \E n \in 1..MaxAlbums :
         \E cnt \in TrackCounts(n, 0) :
            InitManifests(n, [i \in 1..n |-> TRUE], cnt, cnt, DefaultNames)
    /\ InitCatalog(Entries, {})

SpecLive ==
    InitLive /\ [][Next]_vars /\ Fairness

(* ------------------------------ claims -------------------------------- *)

Exited ==
    pc = "exit"

Failed ==
    FuturesIn({"Failed"})

Cancelled ==
    FuturesIn({"Cancelled"})

Succeeded ==
    FuturesIn({"Succeeded"})

\* the futures whose completion the loop of lines 191-197 has handled
Consumed ==
    {f \in 1..Len(futures) : f \notin not_done \cup done}

\* C1: when several units fail in one parallel_execute run, the error kept
\* for the caller is that of the failure observed first: a failure observed
\* later, in the same batch or in a later one, never replaces it.
C1_FirstErrorKept ==
    [][error # 0 => error' = error]_vars

C3_FailureRaises ==
    (Exited /\ Failed # {}) =>
        /\ outcome.status = "raised"
        /\ outcome.err = "ExportError"
        /\ outcome.unit \in Failed

C3_Witness ==
    /\ Exited
    /\ stop_event
    /\ \E f \in Failed : \E g \in Succeeded : g > f /\ g \in Consumed
    /\ outcome.status = "raised"

\* C4: once the scheduler has observed the stop_event or a failure (line
\* 198), it awaits no more results: no further wait returns, no further
\* completion is consumed and the progress callback is not invoked again.
C4_NothingConsumedAfterStop ==
    [][stop_seen => done' = done /\ done_counter' = done_counter]_vars

\* C4 as amended: after observing the stop_event or a failure the scheduler
\* keeps waiting until the not-done set is empty: by the time it returns or
\* raises it has consumed the completion of every unit, and it has invoked
\* the progress callback once for every consumed unit that succeeded, never
\* for a failed or cancelled one.
C4_DrainsAfterStop ==
    /\ done_counter = Cardinality(Consumed \cap Succeeded)
    /\ Exited => not_done = {} /\ done = {}
    /\ stop_seen /\ ~Exited => pc \in {"for", "cancel", "while"}

\* a batch was consumed to its end after an earlier batch's check had
\* observed the stop: every unit succeeded and was reported
C4_Witness ==
    /\ stop_seen
    /\ pc = "for"
    /\ done = {}
    /\ not_done = {}
    /\ Len(futures) >= 2
    /\ done_counter = Len(futures)

\* the moves of one future between two states of the model
Moves(f, from, to) ==
    futures[f].state = from /\ futures'[f].state \in to

Stays(f) ==
    futures'[f].state = futures[f].state

\* one unit was submitted for every Track, in the order of the list
OnePerTrack ==
    /\ Len(futures) = Len(songs)
    /\ \A f \in 1..Len(futures) : futures[f].song = f

\* C5: a submitted unit moves only along Pending -> Running -> {Succeeded,
\* Failed, Cancelled}; it ends in exactly one terminal state, which it never
\* leaves; exactly one unit is submitted per Track.
C5_StateMachine ==
    [][/\ \A f \in 1..Len(futures) :
            \/ Stays(f)
            \/ Moves(f, "Pending", {"Running"})
            \/ Moves(f, "Running", {"Succeeded", "Failed", "Cancelled"})
       /\ Len(futures') >= Len(futures)
       /\ pc' \in {"while", "for", "cancel"} => OnePerTrack']_vars

\* C5 as amended: a submitted unit moves only along Pending -> Running ->
\* {Succeeded, Failed} or Pending -> Cancelled (Cancelled is entered from
\* Pending, never from Running); a terminal state is never left, every unit
\* is in one when parallel_execute returns or raises, and exactly one unit is
\* submitted per Track.
C5_StateMachineAmended ==
    [][/\ \A f \in 1..Len(futures) :
            \/ Stays(f)
            \/ Moves(f, "Pending", {"Running", "Cancelled"})
            \/ Moves(f, "Running", {"Succeeded", "Failed"})
       /\ Len(futures') >= Len(futures)
       /\ pc' \in {"while", "for", "cancel"} => OnePerTrack'
       /\ (pc = "while" /\ pc' = "exit") =>
             \A f \in 1..Len(futures) :
                futures'[f].state \in {"Succeeded", "Failed", "Cancelled"}]_vars

C5_Witness ==
    /\ Exited
    /\ Len(futures) = MaxSongs
    /\ Succeeded # {}
    /\ Failed # {}
    /\ Cancelled # {}

\* C6: when the scheduler requests cancellation (future.cancel(), lines
\* 199-200), a unit that has not started is cancelled and never runs
\* afterwards, and a unit already running is not interrupted: it ends as
\* Succeeded or Failed on its own.  Once the requests of a batch are made no
\* unit is left pending.
C6_CancelOnlyPending ==
    [][/\ \A f \in 1..Len(futures) :
            /\ (pc = "cancel" /\ f \in to_cancel /\ f \notin to_cancel') =>
                  /\ futures[f].state = "Pending" => futures'[f].state = "Cancelled"
                  /\ futures[f].state # "Pending" => Stays(f)
            /\ futures[f].state = "Cancelled" =>
                  Stays(f) /\ futures'[f].attempts = 0
            /\ futures[f].state = "Running" =>
                  futures'[f].state \in {"Running", "Succeeded", "Failed"}
       /\ (pc = "cancel" /\ pc' = "while") =>
             \A f \in 1..Len(futures) : futures'[f].state # "Pending"]_vars

\* the requests were made with one unit pending and another running, and
\* the running one then ended on its own
C6_Witness ==
    /\ stop_seen
    /\ pc = "while"
    /\ Cancelled # {}
    /\ \E f \in not_done : futures[f].state \in {"Succeeded", "Failed"}

\* C7: under every interleaving of the setter of the stop_event with the rip
\* thread, no unit is submitted to the pool after the stop_event is set.
C7_NoSubmitAfterStop ==
    [][Len(futures') > Len(futures) => ~stop_event]_vars

ConfigPhase ==
    {"rip", "parse_config", "albums", "fix_songs", "songs_csv",
     "normalize_songs", "stop_check"}

Floor ==
    CONFIG_PARSE_PROGRESS * Scale

\* C8: over a whole run the values passed to the progress callback never
\* decrease and lie in [0, 100]; the values reported while parsing the
\* configuration never exceed CONFIG_PARSE_PROGRESS and those reported for
\* completed units are never below it.
C8_ProgressMonotone ==
    [][/\ progress_val' >= progress_val
       /\ progress_val' >= 0
       /\ progress_val' <= 100 * Scale
       /\ pc \in ConfigPhase => progress_val' <= Floor
       /\ done_counter' # done_counter => progress_val' >= Floor]_vars

\* a second unit has been reported, after the parsing of two albums
C8_Witness ==
    /\ pc = "for"
    /\ done_counter = 2
    /\ Len(songs) = 3
    /\ progress_val = Floor + ((100 - CONFIG_PARSE_PROGRESS) * 2 * Scale) \div 3
    /\ \E f \in 1..Len(songs) : songs[f].album_number = 2

\* C9: the progress callback receives 100 only after every unit has
\* completed and none was cancelled: no report of 100 is made while a unit
\* is pending or running.
C9_HundredOnlyAtEnd ==
    progress_val = 100 * Scale =>
        /\ OnePerTrack
        /\ Succeeded = 1..Len(songs)
        /\ Consumed = 1..Len(songs)

C9_Witness ==
    /\ progress_val = 100 * Scale
    /\ Len(futures) >= 2

\* C10: whatever the order in which the units complete, the final content
\* of every output path is the same, because no two units of a run write
\* the same path: the file a unit has written still holds what it wrote.
C10_EveryUnitKeepsItsFile ==
    \A f \in Succeeded :
        [path |-> MusicPath(songs[futures[f].song]), content |-> f] \in files

\* the prefixes a run over the manifests of SpecConfig resolves, one that
\* every config bundle starts with and one that no bundle starts with
ProbePrefixes ==
    {BasePrefix(ALBUMS), LocalizedPrefix(ALBUMS, l_suffix("English")), CONFIG,
     <<"n", "o", "n", "e", "_">>}
    \cup {BasePrefix(JsonName(i)) : i \in 1..2}
    \cup {LocalizedPrefix(JsonName(i), l_suffix("English")) : i \in 1..2}
    \cup UNION {{MusicPrefix(FixSong(Song(ConfigAlbum(i), ConfigTrack(i, t), t, 1))),
                 CoverPrefix(FixSong(Song(ConfigAlbum(i), ConfigTrack(i, t), t, 1)))} :
                    i \in 1..2, t \in 1..2}

\* the positions of the entries that start with the platform segment
\* followed by the prefix
Matches(prefix) ==
    {k \in 1..Len(catalog) : StartsWith(catalog[k], PLATFORM \o prefix)}

Reverse(list) ==
    [k \in 1..Len(list) |-> list[Len(list) + 1 - k]]

\* C11: find_with_prefix returns a path only when exactly one entry of the
\* catalog starts with the platform segment followed by the prefix, and then
\* the path of that entry; with no such entry or with two or more (a
\* duplicated entry included) it raises, never returning the first match;
\* the result depends on the contents of the catalog only, not on the order
\* of its entries.
C11_ExactlyOneMatch ==
    pc = "parse_config" =>
        \A prefix \in ProbePrefixes :
            LET result == find_with_prefix(catalog, prefix)
            IN  /\ result.found =>
                      \E k \in Matches(prefix) :
                         /\ Matches(prefix) = {k}
                         /\ result.path = Split(catalog[k], "\\")
                         /\ result.path \notin missing_bundles
                /\ Cardinality(Matches(prefix)) # 1 => result = NotFound
                /\ find_with_prefix(Reverse(catalog), prefix) = result

\* a catalog in which one entry is listed twice: its prefix is not resolved
\* and another prefix is
C11_Witness ==
    /\ pc = "parse_config"
    /\ \E j, k \in 1..Len(catalog) : j # k /\ catalog[j] = catalog[k]
    /\ \E prefix \in ProbePrefixes :
         /\ Cardinality(Matches(prefix)) = 2
         /\ ~find_with_prefix(catalog, prefix).found
    /\ \E prefix \in ProbePrefixes : find_with_prefix(catalog, prefix).found

\* the Tracks of the list that share the album_number of song
SameAlbum(list, song) ==
    {j \in 1..Len(list) : list[j].album_number = song.album_number}

\* C12: for every Track of the list parse_config returns, whatever the base
\* and localized manifests (a localized track list shorter or longer than
\* the base one included), track_total is the number of Tracks of the list
\* with its album_number.
C12_TrackTotalIsAlbumSize ==
    pc = "fix_songs" =>
        \A i \in 1..Len(songs) :
            songs[i].track_total = Cardinality(SameAlbum(songs, songs[i]))

\* the normalization pass of rip, lines 474 and 479
Normalized(list) ==
    normalize_songs(fix_songs(list))

\* C13: the normalization pass is idempotent: for every Track list, here the
\* lists parse_config returns, applying fix_songs and normalize_songs twice
\* leaves every field of every Track as applying them once does.
C13_NormalizerIdempotent ==
    pc = "fix_songs" => Normalized(Normalized(songs)) = Normalized(songs)

\* the errors rip raises before it submits: UserError (line 456),
\* FileNotFoundError of find_with_prefix and the assertions of parse_config
ConfigErrors ==
    {"UserError", "FileNotFoundError", "AssertionError"}

\* C14: when rip fails in its validation or config phase (no MuseDash.exe,
\* a prefix the catalog does not resolve, albums manifests of different
\* lengths, a track record whose cover or music lacks its suffix), the error
\* reaches the caller before any unit is submitted and no audio or cover
\* file is written; and no unit is ever submitted in a run without
\* MuseDash.exe or with such a track record.
C14_ConfigFailureBeforeExtraction ==
    /\ (Exited /\ outcome.status = "raised" /\ outcome.err \in ConfigErrors) =>
          /\ outcome.unit = 0
          /\ futures = <<>>
          /\ work_ids = <<>>
          /\ files = {}
    /\ futures # <<>> =>
          /\ exe_exists
          /\ \A i \in 1..Len(songs) :
                /\ EndsWith(songs[i].cover_name, COVER_SUFFIX)
                /\ EndsWith(songs[i].music_name, MUSIC_SUFFIX)

\* the run over the track record whose cover lacks "_cover" has failed
C14_Witness ==
    /\ Exited
    /\ outcome = Raised("AssertionError", 0)
    /\ \E i \in 1..Len(entry_jsons) : \E t \in 1..Len(entry_jsons[i]) :
          ~EndsWith(entry_jsons[i][t].cover, COVER_SUFFIX)
    /\ files = {}

Contains(s, sub) ==
    \E k \in 1..(Len(s) - Len(sub) + 1) : SubSeq(s, k, k + Len(sub) - 1) = sub

\* the corrections of fix_songs show in every Track of the list
Corrected(list) ==
    \A i \in 1..Len(list) :
        /\ list[i].song_asset_name \notin {SUGAR_RADIO, MISTY_DAY}
        /\ ~Contains(list[i].song_asset_name, MUSIC_SUFFIX)
        /\ ~Contains(list[i].music_asset_name, MUSIC_SUFFIX)
        /\ ~Contains(list[i].album_name, EVERYTING)

\* the prefix and the genre of normalize_songs show in every Track
Prefixed(list) ==
    \A i \in 1..Len(list) :
        /\ StartsWith(list[i].album_name, MUSE_DASH_PREFIX)
        /\ list[i].genre = "Video Games"

CsvWritten ==
    ~csv_file.exists /\ csv_file'.exists

UnitSubmitted ==
    Len(futures') > Len(futures)

\* C15: in every run the asset-key corrections are applied before any unit
\* resolves a bundle, and the album_name prefix and the genre have been
\* applied before songs.csv is written and before any unit is submitted.
C15_NormalizedBeforeCsv ==
    [][/\ CsvWritten => Corrected(songs) /\ Prefixed(songs)
       /\ UnitSubmitted => Corrected(songs) /\ Prefixed(songs)]_vars

\* C15 as amended: the corrections of fix_songs are applied before songs.csv
\* is written and before any unit is submitted; the album_name prefix and
\* the genre are applied after songs.csv is written (its rows hold the
\* album names without the prefix, and no Track has a genre yet) and before
\* any unit is submitted.
C15_CorrectedBeforeCsvNormalizedBeforeSubmit ==
    [][/\ CsvWritten =>
             /\ Corrected(songs)
             /\ Len(csv_file'.rows) = Len(songs)
             /\ \A i \in 1..Len(songs) :
                   /\ songs[i].genre = "None"
                   /\ csv_file'.rows[i].album_name = songs[i].album_name
       /\ UnitSubmitted =>
             /\ Corrected(songs)
             /\ Prefixed(songs)
             /\ csv_file.exists =>
                   \A i \in 1..Len(songs) :
                      songs[i].album_name =
                          MUSE_DASH_PREFIX \o csv_file.rows[i].album_name]_vars

\* songs.csv was written and units were submitted for Tracks whose asset
\* keys and album name fix_songs had to correct
C15_Witness ==
    /\ csv_file.exists
    /\ Len(futures) = Len(songs)
    /\ Succeeded # {}
    /\ \E i \in 1..Len(songs) : songs[i].song_asset_name = QU_JIANHAI
    /\ \E i \in 1..Len(songs) : songs[i].song_asset_name = MISTY_NIGHT
    /\ \E i \in 1..Len(songs) :
          /\ csv_file.rows[i].album_name = EVERYTHING
          /\ songs[i].album_name = MUSE_DASH_PREFIX \o EVERYTHING

\* C16: parallel_execute always terminates: if every unit that has started
\* finishes, the not-done set becomes empty and the call returns or raises,
\* whatever the mix of successes, failures and cancellations and whenever
\* the stop_event is set.
C16_ParallelExecuteTerminates ==
    (pc = "submit") ~>
        (Exited /\ not_done = {} /\ outcome.status \in {"returned", "raised"})

\* the call has ended after the stop_event was set, with a unit cancelled
\* and notified by the pool, and another one failed
C16_Witness ==
    /\ Exited
    /\ stop_event
    /\ not_done = {}
    /\ notified # {}
    /\ Failed # {}
    /\ outcome.status = "raised"

\* C17: rip returns True only if one extraction unit was submitted for every
\* Track of the normalized list and every one of those units ended
\* Succeeded: no unit Failed, none was Cancelled, and the progress callback
\* was invoked once per Track during extraction.
C17_TrueOnlyIfAllSucceeded ==
    outcome = Returned(TRUE) =>
        /\ Prefixed(songs)
        /\ OnePerTrack
        /\ Succeeded = 1..Len(songs)
        /\ Failed = {}
        /\ Cancelled = {}
        /\ Consumed = 1..Len(songs)
        /\ done_counter = Len(songs)

\* rip has returned True for a list of three Tracks of two albums
C17_Witness ==
    /\ Exited
    /\ outcome = Returned(TRUE)
    /\ Len(songs) = 3
    /\ \E i \in 1..Len(songs) : songs[i].album_number = 2

====
